---- MODULE Spec2Model ----
(***************************************************************************)
(* A model of kuangyh/recordio (src/recordio.go).  The file holds two      *)
(* variants of the package:                                                *)
(*   variant "A"  lines 1-215   12-byte header, snappy, trailer checksum   *)
(*   variant "B"  lines 217-425 16-byte header, gzip, checksum in header   *)
(* Bytes are the integers 0..255, a uint32 on the wire is its four         *)
(* little-endian bytes, and CRC32-IEEE is computed bit for bit.            *)
(***************************************************************************)
EXTENDS Integers, Sequences, FiniteSets, TLC

----------------------------------------------------------------------------
(* Bounds of the model. *)

\* the longest record handed to WriteRecord
MaxLen == 2
\* WriteRecord calls before a Reader is opened (Spec, SpecSink)
MaxRecords == 2
\* WriteRecord calls before the stream is damaged (SpecCorrupt)
MaxCorruptRecords == 1
\* ReadRecord calls made after the last frame
ExtraReads == 2
\* the longest compressed body whose expansion is read (SpecBuffers, SpecLoops)
MaxBodyLength == 2
\* the longest stream such a body expands to
MaxExpanded == 6

\* the byte values records are made of
RecordBytes == {97}

----------------------------------------------------------------------------
(* Bytes, little-endian words and CRC32-IEEE. *)

Byte == 0..255

Min(a, b) == IF a < b THEN a ELSE b

\* a buffer as make([]byte, n) leaves it
Zeros(n) == [i \in 1..n |-> 0]

\* bit k of a xor b, in place
XorBit(a, b, k) == (2 ^ k) * (((a \div (2 ^ k)) + (b \div (2 ^ k))) % 2)

\* the xor of two 4-bit numbers, tabulated
Xor4 ==
    [a \in 0..15 |-> [b \in 0..15 |->
        XorBit(a, b, 0) + XorBit(a, b, 1) + XorBit(a, b, 2) + XorBit(a, b, 3)]]

\* the xor of two bytes, tabulated
Xor8Table ==
    [a \in Byte |-> [b \in Byte |->
        16 * Xor4[a \div 16][b \div 16] + Xor4[a % 16][b % 16]]]

\* the xor of two bytes
Xor8(a, b) == Xor8Table[a][b]

\* xor of two 4-byte little-endian words
Xor32(u, v) == << Xor8(u[1], v[1]), Xor8(u[2], v[2]), Xor8(u[3], v[3]), Xor8(u[4], v[4]) >>

\* binary.LittleEndian.PutUint32 of a value below 2^31
PutUint32(v) ==
    << v % 256, (v \div 256) % 256, (v \div 65536) % 256, (v \div 16777216) % 256 >>

\* binary.LittleEndian.Uint32 (the models' words stay below 2^31)
Uint32(b) == b[1] + 256 * b[2] + 65536 * b[3] + 16777216 * b[4]

\* the reflected IEEE polynomial 0xEDB88320, little-endian
IEEEPoly == << 32, 131, 184, 237 >>

\* a 4-byte word shifted right by one bit
Shr1(w) ==
    << (w[1] \div 2) + 128 * (w[2] % 2), (w[2] \div 2) + 128 * (w[3] % 2),
       (w[3] \div 2) + 128 * (w[4] % 2), w[4] \div 2 >>

\* one bit of the table loop: shift, and xor the polynomial in on a carry
CrcBit(w) == IF w[1] % 2 = 1 THEN Xor32(Shr1(w), IEEEPoly) ELSE Shr1(w)

\* the inner loop of the table's construction: n more bits
RECURSIVE CrcBits(_, _)
CrcBits(w, n) == IF n = 0 THEN w ELSE CrcBits(CrcBit(w), n - 1)

\* crc32.IEEETable (indexed from 0)
IEEETable == [b \in Byte |-> CrcBits(<< b, 0, 0, 0 >>, 8)]

CrcUpdateByte(crc, b) ==
    Xor32(IEEETable[Xor8(crc[1], b)], << crc[2], crc[3], crc[4], 0 >>)

\* the update loop of crc32 over buf[i..j], crc being its value before buf[i]
RECURSIVE CrcRange(_, _, _, _)
CrcRange(crc, buf, i, j) ==
    IF crc[1] \in Byte /\ i <= j
    THEN CrcRange(CrcUpdateByte(crc, buf[i]), buf, i + 1, j)
    ELSE crc

\* the same loop over buf[i..], eight bytes at a time
RECURSIVE CrcUpdate(_, _, _)
CrcUpdate(crc, buf, i) ==
    IF crc[1] \in Byte /\ i <= Len(buf)
    THEN CrcUpdate(CrcRange(crc, buf, i, Min(i + 7, Len(buf))), buf, i + 8)
    ELSE crc

\* crc32.ChecksumIEEE: the checksum as the four bytes PutUint32 stores
ChecksumIEEE(buf) ==
    Xor32(CrcUpdate(<< 255, 255, 255, 255 >>, buf, 1), << 255, 255, 255, 255 >>)


----------------------------------------------------------------------------
(* Errors and flags. *)

Nil == "nil"
EOF == "io.EOF"
ErrUnexpectedEOF == "io.ErrUnexpectedEOF"
ErrReadBytes == "ErrReadBytes"
ErrWriteBytes == "ErrWriteBytes"
ErrChecksum == "ErrChecksum"
\* an opaque error of the underlying io.Reader / io.Writer
ErrIO == "ErrIO"

\* variant A
NoCompression == 1
DefaultFlagsA == 0
recordHeaderStorageSize == 12
TrailerSize == 4
UncompressBufSize == 4096

\* variant B
GzipCompress == 1
BodyChecksum == 2
DefaultFlagsB == BodyChecksum
recordHeaderSize == 16

\* flags & bit == bit, for a one-bit mask
HasFlag(flags, bit) == (flags \div bit) % 2 = 1

RECURSIVE BitOr(_, _, _)
BitOr(a, b, bits) ==
    IF bits = 0 THEN 0
    ELSE (IF a % 2 = 1 \/ b % 2 = 1 THEN 1 ELSE 0)
         + 2 * BitOr(a \div 2, b \div 2, bits - 1)

\* the flags of the call alone
FlagsOr_callOnly(a, b) == a

\* flags | rw.Flags
FlagsOr(a, b) == BitOr(a, b, 8)

----------------------------------------------------------------------------
(* Variant A: the 12-byte header. *)

ZeroHeaderA == [bodyLength |-> 0, flags |-> 0]

\* an encode that stores the two fields in each other's place
encode_swapped(header) ==
    LET first == PutUint32(header.flags) \o PutUint32(header.bodyLength)
    IN  first \o ChecksumIEEE(first)

\* recordHeader.encode
encode(header) ==
    LET first == PutUint32(header.bodyLength) \o PutUint32(header.flags)
    IN  first \o ChecksumIEEE(first)

\* a decode that assigns the fields before it compares the checksums
decode_assignFirst(header, buf) ==
    [err |-> IF SubSeq(buf, 9, 12) # ChecksumIEEE(SubSeq(buf, 1, 8))
             THEN ErrChecksum ELSE Nil,
     header |-> [bodyLength |-> Uint32(SubSeq(buf, 1, 4)),
                 flags |-> Uint32(SubSeq(buf, 5, 8))]]

\* recordHeader.decode: the error and the header as decode leaves it
decode(header, buf) ==
    IF SubSeq(buf, 9, 12) # ChecksumIEEE(SubSeq(buf, 1, 8))
    THEN [err |-> ErrChecksum, header |-> header]
    ELSE [err |-> Nil,
          header |-> [bodyLength |-> Uint32(SubSeq(buf, 1, 4)),
                      flags |-> Uint32(SubSeq(buf, 5, 8))]]

----------------------------------------------------------------------------
(* Variant B: the 16-byte header. *)

ZeroHeaderB == [bodyLength |-> 0, flags |-> 0, bodyChecksum |-> << 0, 0, 0, 0 >>]

\* recordHeader.MarshalBinary
MarshalBinary(header) ==
    LET first == PutUint32(header.bodyLength) \o PutUint32(header.flags)
                 \o header.bodyChecksum
    IN  first \o ChecksumIEEE(first)

\* recordHeader.UnmarshalBinary
UnmarshalBinary(header, data) ==
    IF Len(data) < recordHeaderSize
    THEN [err |-> ErrReadBytes, header |-> header]
    ELSE IF SubSeq(data, 13, 16) # ChecksumIEEE(SubSeq(data, 1, 12))
    THEN [err |-> ErrChecksum, header |-> header]
    ELSE [err |-> Nil,
          header |-> [bodyLength |-> Uint32(SubSeq(data, 1, 4)),
                      flags |-> Uint32(SubSeq(data, 5, 8)),
                      bodyChecksum |-> SubSeq(data, 9, 12)]]

----------------------------------------------------------------------------
(* snappy (github.com/golang/snappy), as variant A calls it. *)

RECURSIVE PutUvarint(_)
PutUvarint(n) ==
    IF n < 128 THEN << n >> ELSE << 128 + (n % 128) >> \o PutUvarint(n \div 128)

\* emitLiteral of a non-empty literal shorter than 65536 bytes
emitLiteral(lit) ==
    LET n == Len(lit) - 1
    IN  IF n < 60 THEN << 4 * n >> \o lit
        ELSE IF n < 256 THEN << 4 * 60, n >> \o lit
        ELSE << 4 * 61, n % 256, n \div 256 >> \o lit

\* snappy.Encode.  A block shorter than 17 bytes is emitted as one literal;
\* longer blocks are emitted as a literal too, which every decoder accepts.
SnappyEncode(src) ==
    PutUvarint(Len(src)) \o (IF Len(src) = 0 THEN << >> ELSE emitLiteral(src))

\* binary.Uvarint on at most four bytes: [v, n], n = 0 when buf ends early,
\* n = -1 when the value needs more than four bytes
RECURSIVE Uvarint(_, _)
Uvarint(buf, i) ==
    IF i > Len(buf) THEN [v |-> 0, n |-> 0]
    ELSE IF i > 4 THEN [v |-> 0, n |-> -1]
    ELSE IF buf[i] < 128 THEN [v |-> buf[i], n |-> i]
    ELSE LET rest == Uvarint(buf, i + 1)
         IN  IF rest.n <= 0 THEN rest
             ELSE [v |-> (buf[i] - 128) + 128 * rest.v, n |-> rest.n]

\* the copy loop of snappy's decode: dst[d] = dst[d-offset], length times
RECURSIVE SnappyCopy(_, _, _)
SnappyCopy(out, offset, length) ==
    IF length = 0 THEN out
    ELSE SnappyCopy(Append(out, out[Len(out) + 1 - offset]), offset, length - 1)

\* snappy's decode loop: s bytes of src consumed, out decoded so far
RECURSIVE SnappyDecodeLoop(_, _, _, _)
SnappyDecodeLoop(src, s, out, dLen) ==
    IF s >= Len(src)
    THEN [ok |-> Len(out) = dLen, out |-> out]
    ELSE
    LET tag == src[s + 1]
        x == tag \div 4
        bad == [ok |-> FALSE, out |-> << >>]
        at(k) == IF k <= Len(src) THEN src[k] ELSE 0
    IN  CASE tag % 4 = 0 ->
               LET extra == IF x < 60 THEN 0 ELSE x - 59
                   s1 == s + 1 + extra
                   length == 1 + (CASE extra = 0 -> x
                                    [] extra = 1 -> at(s1)
                                    [] extra = 2 -> at(s1 - 1) + 256 * at(s1)
                                    [] extra = 3 -> at(s1 - 2) + 256 * at(s1 - 1)
                                                    + 65536 * at(s1)
                                    [] OTHER -> at(s1 - 3) + 256 * at(s1 - 2)
                                                + 65536 * at(s1 - 1))
               IN  IF s1 > Len(src) \/ (extra = 4 /\ at(s1) # 0) THEN bad
                   ELSE IF length > dLen - Len(out) \/ length > Len(src) - s1 THEN bad
                   ELSE SnappyDecodeLoop(src, s1 + length,
                                         out \o SubSeq(src, s1 + 1, s1 + length), dLen)
          [] OTHER ->
               LET s1 == s + (CASE tag % 4 = 1 -> 2 [] tag % 4 = 2 -> 3 [] OTHER -> 5)
                   length == IF tag % 4 = 1 THEN 4 + (x % 8) ELSE 1 + x
                   offset == CASE tag % 4 = 1 -> 256 * (tag \div 32) + at(s1)
                               [] tag % 4 = 2 -> at(s1 - 1) + 256 * at(s1)
                               [] OTHER -> IF at(s1) # 0 THEN 16777216
                                           ELSE at(s1 - 3) + 256 * at(s1 - 2)
                                                + 65536 * at(s1 - 1)
               IN  IF s1 > Len(src) THEN bad
                   ELSE IF offset <= 0 \/ Len(out) < offset \/ length > dLen - Len(out)
                   THEN bad
                   ELSE SnappyDecodeLoop(src, s1, SnappyCopy(out, offset, length), dLen)

\* snappy.Decode: [ok, out]
SnappyDecode(src) ==
    LET dl == Uvarint(src, 1)
    IN  IF dl.n <= 0 THEN [ok |-> FALSE, out |-> << >>]
        ELSE SnappyDecodeLoop(src, dl.n, << >>, dl.v)

----------------------------------------------------------------------------
(* gzip (compress/gzip), as variant B calls it.  The deflate stream is     *)
(* modelled with stored blocks, which every inflater reads.                *)

\* the 10 bytes gzip.Writer puts first: magic, deflate, no flags, no mtime
GzipHeader == << 31, 139, 8, 0, 0, 0, 0, 0, 0, 255 >>

PutUint16(v) == << v % 256, (v \div 256) % 256 >>

StoredBlock(final, data) ==
    << final >> \o PutUint16(Len(data)) \o PutUint16(65535 - Len(data)) \o data

\* what gzip.Writer has put in its buffer after Write(data) and Flush():
\* the header, the data, and the empty stored block of a sync flush
GzipWriteFlush(data) ==
    GzipHeader
    \o (IF Len(data) > 0 THEN StoredBlock(0, data) ELSE << >>)
    \o StoredBlock(0, << >>)

\* what gzip.Writer.Close() adds: the final block, CRC32 and size of the data
GzipClose(data) ==
    StoredBlock(1, << >>) \o ChecksumIEEE(data) \o PutUint32(Len(data))

GzipErrHeader == "gzip.ErrHeader"
GzipErrChecksum == "gzip.ErrChecksum"
FlateCorrupt == "flate.CorruptInputError"

\* the inflater and gzip trailer check: the bytes produced and the error
\* that ends them (EOF for a complete member)
RECURSIVE Inflate(_, _, _)
Inflate(src, s, out) ==
    IF s >= Len(src) THEN [out |-> out, err |-> ErrUnexpectedEOF]
    ELSE
    LET hdr == src[s + 1]
        final == hdr % 2 = 1
        btype == (hdr \div 2) % 4
    IN  IF btype # 0 THEN [out |-> out, err |-> FlateCorrupt]
        ELSE IF Len(src) - (s + 1) < 4 THEN [out |-> out, err |-> ErrUnexpectedEOF]
        ELSE
        LET n == src[s + 2] + 256 * src[s + 3]
            nn == src[s + 4] + 256 * src[s + 5]
            avail == Len(src) - (s + 5)
        IN  IF nn # 65535 - n THEN [out |-> out, err |-> FlateCorrupt]
            ELSE IF avail < n
            THEN [out |-> out \o SubSeq(src, s + 6, Len(src)), err |-> ErrUnexpectedEOF]
            ELSE
            LET out1 == out \o SubSeq(src, s + 6, s + 5 + n)
                t == s + 5 + n
            IN  IF ~final THEN Inflate(src, t, out1)
                ELSE IF Len(src) - t < 8 THEN [out |-> out1, err |-> ErrUnexpectedEOF]
                ELSE IF SubSeq(src, t + 1, t + 4) # ChecksumIEEE(out1)
                        \/ SubSeq(src, t + 5, t + 8) # PutUint32(Len(out1))
                THEN [out |-> out1, err |-> GzipErrChecksum]
                ELSE [out |-> out1, err |-> EOF]

\* gzip.NewReader: the error of reading the member header
GzipNewReader(src) ==
    IF Len(src) = 0 THEN EOF
    ELSE IF Len(src) < 10 THEN ErrUnexpectedEOF
    ELSE IF src[1] # 31 \/ src[2] # 139 \/ src[3] # 8 \/ src[4] \div 2 # 0
    THEN GzipErrHeader
    ELSE Nil

\* the decompressed stream of a gzip.Reader over src: the bytes its Reads
\* deliver and the error that ends them
GzipReadAll(src) == Inflate(src, 10, << >>)

\* gzipReader.Read(p) with len(p) = want after size bytes were delivered: the
\* bytes that are left come first, the error that ends the stream after them
GzipRead(g, size, want) ==
    LET left == Len(g.out) - size
    IN  IF left = 0 THEN [n |-> 0, err |-> g.err]
        ELSE [n |-> Min(want, left), err |-> Nil]

\* a growth that allocates and copies nothing
growBuf_noCopy(uncompressed) == Zeros(2 * Len(uncompressed))

\* newBuf: twice the length, the old bytes copied to its front
growBuf(uncompressed) == uncompressed \o Zeros(Len(uncompressed))

\* one turn of the loop over gzipReader.Read on the stream g; st holds
\* uncompressed, uncompressedSize, readErr and whether the loop has ended
gunzipStep(g, st) ==
    LET grown(b, size1) == IF size1 >= Len(b) THEN growBuf(b) ELSE b
        stored(rd, size1) ==
            [uncompressed |-> grown(SubSeq(st.uncompressed, 1, st.uncompressedSize)
                                        \o SubSeq(g.out, st.uncompressedSize + 1, size1)
                                        \o SubSeq(st.uncompressed, size1 + 1,
                                                  Len(st.uncompressed)),
                                    size1),
             uncompressedSize |-> size1,
             readErr |-> rd.err,
             done |-> rd.err # Nil]
        read(rd) ==
            IF rd.n = 0
            THEN [st EXCEPT !.readErr = rd.err, !.done = TRUE]
            ELSE stored(rd, st.uncompressedSize + rd.n)
    IN  read(GzipRead(g, st.uncompressedSize,
                      Len(st.uncompressed) - st.uncompressedSize))

\* the loop as it starts for a body of bodyLength bytes
gunzipStart(bodyLength) ==
    [uncompressed |-> Zeros(bodyLength * 2), uncompressedSize |-> 0,
     readErr |-> Nil, done |-> FALSE]

\* the loop run to its end
RECURSIVE gunzipLoop(_, _)
gunzipLoop(g, st) == IF st.done THEN st ELSE gunzipLoop(g, gunzipStep(g, st))

\* the loop on the stream g of a body of bodyLength bytes: the slice
\* uncompressed[:uncompressedSize] and readErr as it leaves them
gunzipAll(g, bodyLength) ==
    LET left(st) == [out |-> SubSeq(st.uncompressed, 1, st.uncompressedSize),
                     readErr |-> st.readErr]
    IN  left(gunzipLoop(g, gunzipStart(bodyLength)))


----------------------------------------------------------------------------
(* The underlying io.Writer.  A Write(p) call accepts n of p's bytes and   *)
(* returns an error or none; the sink keeps what it accepted.            *)

\* the outcomes of one Write(p): it accepts all of p, all but the last byte
\* or nothing, and returns an error or none
WriteOutcomes ==
    { [n |-> n, err |-> e] : n \in {"all", "allButOne", "none"}, e \in {Nil, ErrIO} }

\* the outcome of a Write on a sink that works
WriteOk == [n |-> "all", err |-> Nil]

\* (n, err) as the Write of want bytes returns it
Outcome(o, want) ==
    [n |-> CASE o.n = "all" -> want
             [] o.n = "allButOne" -> IF want > 0 THEN want - 1 ELSE 0
             [] OTHER -> 0,
     err |-> o.err]

\* one entry of the log of Write calls: what was written, requested, accepted
WriteCall(what, p, o) ==
    [what |-> what, want |-> Len(p), n |-> o.n, err |-> o.err]

----------------------------------------------------------------------------
(* Variant A: Writer. *)

\* NewWriter
NewWriterA(flags) == [Err |-> Nil, Flags |-> flags]

\* the body WriteRecord frames: snappy.Encode unless NoCompression
BodyA(data, flags) ==
    IF ~HasFlag(flags, NoCompression) THEN SnappyEncode(data) ELSE data

\* Writer.WriteRecord(data, flags) past its poison check, with the outcomes
\* o1, o2, o3 of its Writes: the writer and the sink afterwards, the error
\* returned and the Write calls issued
WriteFrameA(rw, sink, data, flags, o1, o2, o3) ==
    LET failed == [rw EXCEPT !.Err = ErrWriteBytes]
        \* the three Writes, of headerBuf, body and checksumBuf
        writes(headerBuf, body, checksumBuf, r1, r2, r3) ==
            LET s1 == sink \o SubSeq(headerBuf, 1, r1.n)
                c1 == << WriteCall("header", headerBuf, r1) >>
                c2 == << WriteCall("body", body, r2) >>
                c3 == << WriteCall("checksum", checksumBuf, r3) >>
            IN  IF r1.n # recordHeaderStorageSize
                THEN [rw |-> failed, sink |-> s1, err |-> ErrWriteBytes,
                      size |-> 0, calls |-> c1]
                ELSE IF r2.n # Len(body)
                THEN [rw |-> failed, sink |-> s1 \o SubSeq(body, 1, r2.n),
                      err |-> ErrWriteBytes, size |-> 0, calls |-> c1 \o c2]
                ELSE IF r3.n # Len(checksumBuf)
                THEN [rw |-> failed,
                      sink |-> s1 \o body \o SubSeq(checksumBuf, 1, r3.n),
                      err |-> ErrWriteBytes, size |-> 0, calls |-> c1 \o c2 \o c3]
                ELSE [rw |-> rw, sink |-> s1 \o body \o checksumBuf,
                      err |-> Nil, size |-> 0, calls |-> c1 \o c2 \o c3]
        framed(eflags, body) ==
            writes(encode([bodyLength |-> Len(body), flags |-> eflags]),
                   body,
                   ChecksumIEEE(body),
                   Outcome(o1, recordHeaderStorageSize),
                   Outcome(o2, Len(body)),
                   Outcome(o3, TrailerSize))
        flagged(eflags) == framed(eflags, BodyA(data, eflags))
    IN  flagged(FlagsOr(flags, rw.Flags))

\* Writer.WriteRecord: a poisoned Writer returns its error at once
WriteRecordA(rw, sink, data, flags, o1, o2, o3) ==
    IF rw.Err # Nil
    THEN [rw |-> rw, sink |-> sink, err |-> rw.Err, size |-> 0, calls |-> << >>]
    ELSE WriteFrameA(rw, sink, data, flags, o1, o2, o3)

----------------------------------------------------------------------------
(* Variant B: Writer. *)

\* NewWriter
NewWriterB(options) ==
    [LastError |-> Nil, BytesWriterError |-> Nil, Options |-> options]

\* compressedData: what gzipWriter has buffered after Write and Flush (its
\* deferred Close runs after the frame is written), or the data itself
BodyB(data, options) ==
    IF HasFlag(options, GzipCompress) THEN GzipWriteFlush(data) ELSE data

\* Writer.WriteRecord(data) past its poison check, with the outcomes o1, o2
\* of its Writes
WriteFrameB(rw, sink, data, o1, o2) ==
    LET failed(e) == [rw EXCEPT !.LastError = ErrWriteBytes, !.BytesWriterError = e]
        \* the two Writes, of headerBin and of compressedData
        writes(headerBin, compressedData, r1, r2) ==
            LET s1 == sink \o SubSeq(headerBin, 1, r1.n)
                c1 == << WriteCall("header", headerBin, r1) >>
            IN  IF r1.n # Len(headerBin) \/ r1.err # Nil
                THEN [rw |-> failed(r1.err), sink |-> s1, err |-> ErrWriteBytes,
                      size |-> r1.n, calls |-> c1]
                ELSE IF r2.n # Len(compressedData) \/ r2.err # Nil
                THEN [rw |-> failed(r2.err),
                      sink |-> s1 \o SubSeq(compressedData, 1, r2.n),
                      err |-> ErrWriteBytes, size |-> r1.n + r2.n,
                      calls |-> Append(c1, WriteCall("body", compressedData, r2))]
                ELSE [rw |-> rw, sink |-> s1 \o compressedData, err |-> Nil,
                      size |-> r1.n + r2.n,
                      calls |-> Append(c1, WriteCall("body", compressedData, r2))]
        framed(compressedData) ==
            writes(MarshalBinary([bodyLength |-> Len(compressedData),
                                  flags |-> rw.Options,
                                  bodyChecksum |-> IF HasFlag(rw.Options, BodyChecksum)
                                                   THEN ChecksumIEEE(compressedData)
                                                   ELSE << 0, 0, 0, 0 >>]),
                   compressedData,
                   Outcome(o1, recordHeaderSize),
                   Outcome(o2, Len(compressedData)))
    IN  framed(BodyB(data, rw.Options))

\* a WriteRecord that skips the poison check
WriteRecordB_unchecked(rw, sink, data, o1, o2) == WriteFrameB(rw, sink, data, o1, o2)

\* a WriteRecord that returns the count of its last Write alone
WriteRecordB_lastCount(rw, sink, data, o1, o2) ==
    IF rw.LastError # Nil
    THEN [rw |-> rw, sink |-> sink, err |-> rw.LastError, size |-> 0, calls |-> << >>]
    ELSE LET counted(r) == [r EXCEPT !.size = r.calls[Len(r.calls)].n]
         IN  counted(WriteFrameB(rw, sink, data, o1, o2))

\* Writer.WriteRecord: a poisoned Writer returns its error at once
WriteRecordB(rw, sink, data, o1, o2) ==
    IF rw.LastError # Nil
    THEN [rw |-> rw, sink |-> sink, err |-> rw.LastError, size |-> 0, calls |-> << >>]
    ELSE WriteFrameB(rw, sink, data, o1, o2)

\* Writer.Write, the io.Writer: [n, err]
WriteB(rw, sink, data, o1, o2) ==
    LET r == WriteRecordB(rw, sink, data, o1, o2)
    IN  [n |-> r.size, err |-> r.err]


----------------------------------------------------------------------------
(* The underlying io.Reader: data, the cursor pos, what it reports at the  *)
(* end of its data (io.EOF, or ErrIO for a source that fails there), and   *)
(* which of the behaviours io.Reader allows it has:                        *)
(*   "bytes.Reader"   at the end (0, EOF) for every Read, also of 0 bytes  *)
(*   "bytes.Buffer"   at the end (0, nil) for a Read of 0 bytes            *)
(*   "DataErrReader"  the last bytes come together with the end error     *)
(* and two that deliver a Read in part, with a nil error, over a           *)
(* bytes.Reader:                                                            *)
(*   "iotest.OneByteReader"  one byte for every Read of one or more        *)
(*   "iotest.HalfReader"     half of the bytes asked for, rounded up       *)
(* and one that never reports its end:                                     *)
(*   "NoProgress"  no bytes and a nil error once its bytes are read, which *)
(*                 io.Reader discourages and allows                        *)

SourceKinds == {"bytes.Reader", "bytes.Buffer", "DataErrReader"}

ChunkedKinds == {"iotest.OneByteReader", "iotest.HalfReader"}

NewSource(data, kind, end) == [data |-> data, pos |-> 0, kind |-> kind, end |-> end]

\* one Read(p) with len(p) = want: [n, err]
SrcRead(br, want) ==
    LET avail == Len(br.data) - br.pos
        n == Min(want, avail)
    IN  CASE br.kind = "bytes.Reader" ->
               IF avail = 0 THEN [n |-> 0, err |-> br.end] ELSE [n |-> n, err |-> Nil]
          [] br.kind = "bytes.Buffer" ->
               IF avail = 0 /\ want > 0 THEN [n |-> 0, err |-> br.end]
               ELSE [n |-> n, err |-> Nil]
          [] br.kind = "iotest.OneByteReader" ->
               IF want = 0 THEN [n |-> 0, err |-> Nil]
               ELSE IF avail = 0 THEN [n |-> 0, err |-> br.end]
               ELSE [n |-> 1, err |-> Nil]
          [] br.kind = "iotest.HalfReader" ->
               IF avail = 0 THEN [n |-> 0, err |-> br.end]
               ELSE [n |-> Min((want + 1) \div 2, avail), err |-> Nil]
          [] br.kind = "NoProgress" ->
               [n |-> n, err |-> Nil]
          [] OTHER ->
               IF n = avail THEN [n |-> n, err |-> br.end] ELSE [n |-> n, err |-> Nil]

Advance(br, n) == [br EXCEPT !.pos = br.pos + n]

\* the n bytes before the cursor
Taken(br, n) == SubSeq(br.data, br.pos - n + 1, br.pos)

----------------------------------------------------------------------------
(* Variant A: Reader. *)

\* NewReader
NewReaderA == [Err |-> Nil]

\* readn as it starts on the source br
readnStart(br) == [err |-> Nil, i |-> 0, br |-> br, reads |-> 0, done |-> FALSE]

\* a turn of readn's loop that goes on after io.EOF cut the bytes short
readnStep_deafToEOF(total, st) ==
    LET read(r, j, br1) ==
            LET next(e, d) == [err |-> e, i |-> j, br |-> br1,
                               reads |-> st.reads + 1, done |-> d]
            IN  IF r.err = EOF
                THEN IF j = 0 THEN next(EOF, TRUE) ELSE next(Nil, FALSE)
                ELSE IF r.err # Nil THEN next(r.err, TRUE)
                ELSE next(Nil, FALSE)
        asked(r) == read(r, st.i + r.n, Advance(st.br, r.n))
    IN  IF st.i = total THEN [st EXCEPT !.done = TRUE]
        ELSE asked(SrcRead(st.br, total - st.i))

\* one turn of readn's loop, with len(dst) = total; st holds i, the source,
\* the Reads made, whether readn has returned and the error it returned
readnStep(total, st) ==
    LET read(r, j, br1) ==
            LET next(e, d) == [err |-> e, i |-> j, br |-> br1,
                               reads |-> st.reads + 1, done |-> d]
            IN  IF r.err = EOF
                THEN IF j = 0 THEN next(EOF, TRUE)
                     ELSE IF j < total THEN next(ErrUnexpectedEOF, TRUE)
                     ELSE next(Nil, FALSE)
                ELSE IF r.err # Nil THEN next(r.err, TRUE)
                ELSE next(Nil, FALSE)
        asked(r) == read(r, st.i + r.n, Advance(st.br, r.n))
    IN  IF st.i = total THEN [st EXCEPT !.done = TRUE]
        ELSE asked(SrcRead(st.br, total - st.i))

\* the loop run until readn returns
RECURSIVE readnLoop(_, _)
readnLoop(total, st) == IF st.done THEN st ELSE readnLoop(total, readnStep(total, st))

\* readn(dst, src) with len(dst) = total: the error, the bytes transferred,
\* the source afterwards and the Reads made
readn(total, br) == readnLoop(total, readnStart(br))

\* a readBody that reads the trailer and never compares it
readBody_unverified(rr, br, header, dst, dstLen) ==
    LET total == header.bodyLength + TrailerSize
        filled(r) ==
            IF r.err # Nil
            THEN [rr |-> [rr EXCEPT !.Err = r.err], br |-> r.br, out |-> << >>,
                  err |-> r.err, reads |-> r.reads, buf |-> "nil"]
            ELSE [rr |-> rr, br |-> r.br,
                  out |-> SubSeq(Taken(r.br, r.i), 1, header.bodyLength),
                  err |-> Nil, reads |-> r.reads,
                  buf |-> IF dstLen < total THEN "new" ELSE dst]
    IN  filled(readn(total, br))

\* a readBody that falls back on the Reader's scratch buffer
bodyBuf_scratch(dst, dstLen, total) ==
    IF dstLen < total THEN "uncompressBuf" ELSE dst

\* the buffer readBody reads into: dst when it holds total bytes, a new one
\* otherwise
bodyBuf(dst, dstLen, total) ==
    IF dstLen < total THEN "new" ELSE dst

\* Reader.readBody(header, dst): dst names the buffer passed, dstLen its
\* length; buf names the buffer the output is a slice of
readBody(rr, br, header, dst, dstLen) ==
    LET bodyLength == header.bodyLength
        total == bodyLength + TrailerSize
        fail(e, r) == [rr |-> [rr EXCEPT !.Err = e], br |-> r.br, out |-> << >>,
                       err |-> e, reads |-> r.reads, buf |-> "nil"]
        \* bytes: dst[:bodyLength+4] as readn filled it
        checked(r, bytes) ==
            IF ChecksumIEEE(SubSeq(bytes, 1, bodyLength))
                  # SubSeq(bytes, bodyLength + 1, total)
            THEN fail(ErrChecksum, r)
            ELSE [rr |-> rr, br |-> r.br, out |-> SubSeq(bytes, 1, bodyLength),
                  err |-> Nil, reads |-> r.reads,
                  buf |-> bodyBuf(dst, dstLen, total)]
        filled(r) == IF r.err # Nil THEN fail(r.err, r)
                     ELSE checked(r, Taken(r.br, r.i))
    IN  filled(readn(total, br))

\* Reader.ReadRecord(dst) past its poison check, with len(dst) = dstLen: the
\* reader and the source afterwards, the slice and error returned, the Reads
\* made on the source, the buffer the slice belongs to, and the header as
\* decode left it
ReadFrameA(rr, br, dstLen) ==
    LET fail(e, b, n, dec, hd) ==
            [rr |-> [rr EXCEPT !.Err = e], br |-> b, out |-> << >>, err |-> e,
             reads |-> n, buf |-> "nil", decoded |-> dec, header |-> hd]
        \* snappy.Decode(dst, rawBuf)
        decoded(h, header, b, u) ==
            IF ~u.ok
            THEN fail(ErrReadBytes, b.br, h.reads + b.reads, TRUE, header)
            ELSE [rr |-> rr, br |-> b.br, out |-> u.out, err |-> Nil,
                  reads |-> h.reads + b.reads,
                  buf |-> IF Len(u.out) <= dstLen THEN "dst" ELSE "new",
                  decoded |-> TRUE, header |-> header]
        compressed(h, header, b) ==
            IF b.err # Nil
            THEN [rr |-> b.rr, br |-> b.br, out |-> << >>, err |-> b.err,
                  reads |-> h.reads + b.reads, buf |-> "nil",
                  decoded |-> TRUE, header |-> header]
            ELSE decoded(h, header, b, SnappyDecode(b.out))
        plain(h, header, b) ==
            [rr |-> b.rr, br |-> b.br, out |-> b.out, err |-> b.err,
             reads |-> h.reads + b.reads, buf |-> b.buf,
             decoded |-> TRUE, header |-> header]
        headed(h, d) ==
            IF d.err # Nil THEN fail(d.err, h.br, h.reads, TRUE, d.header)
            ELSE IF HasFlag(d.header.flags, NoCompression)
            THEN plain(h, d.header, readBody(rr, h.br, d.header, "dst", dstLen))
            ELSE compressed(h, d.header,
                            readBody(rr, h.br, d.header, "uncompressBuf",
                                     UncompressBufSize))
        started(h) ==
            IF h.err # Nil THEN fail(h.err, h.br, h.reads, FALSE, ZeroHeaderA)
            ELSE headed(h, decode(ZeroHeaderA, Taken(h.br, h.i)))
    IN  started(readn(recordHeaderStorageSize, br))

\* a ReadRecord that skips the poison check
ReadRecordA_unchecked(rr, br, dstLen) == ReadFrameA(rr, br, dstLen)

\* Reader.ReadRecord: a poisoned Reader returns its error at once
ReadRecordA(rr, br, dstLen) ==
    IF rr.Err # Nil
    THEN [rr |-> rr, br |-> br, out |-> << >>, err |-> rr.Err, reads |-> 0,
          buf |-> "nil", decoded |-> FALSE, header |-> ZeroHeaderA]
    ELSE ReadFrameA(rr, br, dstLen)

----------------------------------------------------------------------------
(* Variant B: Reader. *)

\* NewReader
NewReaderB(options) ==
    [LastError |-> Nil, BytesReaderError |-> Nil, Options |-> options]

\* Reader.err
errB(rr, err, bytesReaderError) ==
    [rr EXCEPT !.LastError = err, !.BytesReaderError = bytesReaderError]

\* Reader.ReadRecord() past its poison check
ReadFrameB(rr, br) ==
    LET fail(e, ioe, b, n, dec, hd) ==
            [rr |-> errB(rr, e, ioe), br |-> b, out |-> << >>, err |-> e,
             reads |-> n, buf |-> "nil", decoded |-> dec, header |-> hd]
        ok(out, b, header) ==
            [rr |-> rr, br |-> b, out |-> out, err |-> Nil, reads |-> 2,
             buf |-> "new", decoded |-> TRUE, header |-> header]
        \* the loop over gzipReader.Read, u what it left
        gunzip(header, br2, openErr, u) ==
            IF openErr # Nil
            THEN fail(ErrReadBytes, openErr, br2, 2, TRUE, header)
            ELSE IF u.readErr \notin {Nil, EOF, ErrUnexpectedEOF}
            THEN fail(ErrReadBytes, u.readErr, br2, 2, TRUE, header)
            ELSE ok(u.out, br2, header)
        \* rawBytes as the second Read filled it
        body(header, r2, br2, rawBytes) ==
            IF r2.err # Nil \/ r2.n # header.bodyLength
            THEN fail(ErrReadBytes, r2.err, br2, 2, TRUE, header)
            ELSE IF HasFlag(rr.Options, BodyChecksum)
                    /\ HasFlag(header.flags, BodyChecksum)
                    /\ header.bodyChecksum # ChecksumIEEE(rawBytes)
            THEN fail(ErrChecksum, Nil, br2, 2, TRUE, header)
            ELSE IF HasFlag(header.flags, GzipCompress)
            THEN gunzip(header, br2, GzipNewReader(rawBytes),
                        gunzipAll(GzipReadAll(rawBytes), header.bodyLength))
            ELSE ok(rawBytes, br2, header)
        bodyRead(header, br1, r2) ==
            body(header, r2, Advance(br1, r2.n),
                 SubSeq(br1.data, br1.pos + 1, br1.pos + r2.n)
                     \o Zeros(header.bodyLength - r2.n))
        headed(br1, d) ==
            IF d.err # Nil THEN fail(d.err, Nil, br1, 1, TRUE, d.header)
            ELSE bodyRead(d.header, br1, SrcRead(br1, d.header.bodyLength))
        \* headerBytes keeps its zeros where the Read brought nothing
        headerRead(r1, br1) ==
            IF r1.err # Nil
            THEN IF r1.err = EOF THEN fail(EOF, EOF, br1, 1, FALSE, ZeroHeaderB)
                 ELSE fail(ErrReadBytes, r1.err, br1, 1, FALSE, ZeroHeaderB)
            ELSE headed(br1, UnmarshalBinary(ZeroHeaderB,
                                 Taken(br1, r1.n) \o Zeros(recordHeaderSize - r1.n)))
        started(r1) == headerRead(r1, Advance(br, r1.n))
    IN  started(SrcRead(br, recordHeaderSize))

\* Reader.ReadRecord: a poisoned Reader returns its error at once
ReadRecordB(rr, br) ==
    IF rr.LastError # Nil
    THEN [rr |-> rr, br |-> br, out |-> << >>, err |-> rr.LastError, reads |-> 0,
          buf |-> "nil", decoded |-> FALSE, header |-> ZeroHeaderB]
    ELSE ReadFrameB(rr, br)

----------------------------------------------------------------------------
(* The state: one Writer on a sink, then one Reader on a source that       *)
(* holds what the sink received (as received, or damaged on the way).      *)

VARIABLES
    variant,    \* "A" or "B": which variant of the package runs
    rw,         \* the Writer
    sink,       \* the bytes the underlying io.Writer has accepted
    phase,      \* "write" until a Reader is opened, then "read"
    lastWrite,  \* the last WriteRecord call: arguments, results, Write calls
    written,    \* the records of the WriteRecord calls that returned nil
    frameEnds,  \* the sink's length after each of them
    rr,         \* the Reader
    br,         \* the underlying io.Reader
    damage,     \* what happened to the bytes between the sink and the source
    lastRead,   \* the last ReadRecord call: results, Reads made, and len(dst)
                \* when it returned a record
    readLog     \* (out, err) of every ReadRecord call so far

vars == << variant, rw, sink, phase, lastWrite, written, frameEnds,
           rr, br, damage, lastRead, readLog >>

\* the records handed to WriteRecord
RECURSIVE SeqsUpTo(_, _)
SeqsUpTo(S, n) ==
    IF n = 0 THEN { << >> }
    ELSE LET shorter == SeqsUpTo(S, n - 1)
         IN  shorter \cup { Append(q, b) : q \in { t \in shorter : Len(t) = n - 1 }, b \in S }

Records == SeqsUpTo(RecordBytes, MaxLen)

\* the flags a Writer is created with, and those passed to WriteRecord
WriterFlags == IF variant = "A" THEN {DefaultFlagsA, NoCompression} ELSE 0..3
CallFlags == IF variant = "A" THEN {0, NoCompression} ELSE {0}
\* the options a variant B Reader is created with
ReaderOptions == IF variant = "A" THEN {0} ELSE {0, DefaultFlagsB}
\* len(dst) of the dst passed to variant A's ReadRecord: nil, one that holds
\* a record of one byte without its trailer and no longer record, and one
\* that holds every body with its trailer
DstLens == IF variant = "A" THEN {0, 1, 8} ELSE {0}

NoWrite == [called |-> FALSE]
NoRead == [called |-> FALSE]
NoDamage == [type |-> "none"]

\* the sticky error of the Writer and of the Reader
WriterErr(w) == IF variant = "A" THEN w.Err ELSE w.LastError
ReaderErr(r) == IF variant = "A" THEN r.Err ELSE r.LastError
HeaderSize == IF variant = "A" THEN recordHeaderStorageSize ELSE recordHeaderSize

Init ==
    /\ variant \in {"A", "B"}
    /\ rw \in { (IF variant = "A" THEN NewWriterA(f) ELSE NewWriterB(f)) : f \in WriterFlags }
    /\ sink = << >>
    /\ phase = "write"
    /\ lastWrite = NoWrite
    /\ written = << >>
    /\ frameEnds = << >>
    /\ rr = IF variant = "A" THEN NewReaderA ELSE NewReaderB(0)
    /\ br = NewSource(<< >>, "bytes.Reader", EOF)
    /\ damage = NoDamage
    /\ lastRead = NoRead
    /\ readLog = << >>

\* WriteRecord as the variant that runs defines it
WriteRecordOf(data, flags, o1, o2, o3) ==
    IF variant = "A" THEN WriteRecordA(rw, sink, data, flags, o1, o2, o3)
    ELSE WriteRecordB(rw, sink, data, o1, o2)

\* the outcomes to choose from for the k-th Write of a call, given those of
\* the Writes before it: a Write the call never issues has none to choose
OutcomesFor(k, outcomes, data, flags, o1, o2) ==
    IF outcomes = {WriteOk} THEN outcomes
    ELSE IF Len(WriteRecordOf(data, flags, o1, o2, WriteOk).calls) >= k THEN outcomes
    ELSE {WriteOk}

\* a WriteRecord call (variant B: also Write, which only calls it); at most
\* max calls are made, and the sink answers each Write with one of outcomes
WriteRecord(max, outcomes) ==
    /\ phase = "write"
    /\ (IF lastWrite.called THEN lastWrite.call ELSE 0) < max
    /\ \E data \in Records, flags \in CallFlags :
       \E o1 \in OutcomesFor(1, outcomes, data, flags, WriteOk, WriteOk) :
       \E o2 \in OutcomesFor(2, outcomes, data, flags, o1, WriteOk) :
       \E o3 \in OutcomesFor(3, outcomes, data, flags, o1, o2) :
       \E r \in { WriteRecordOf(data, flags, o1, o2, o3) } :
             /\ rw' = r.rw
             /\ sink' = r.sink
             /\ lastWrite' = [called |-> TRUE,
                              call |-> IF lastWrite.called THEN lastWrite.call + 1 ELSE 1,
                              data |-> data, flags |-> flags,
                              poisoned |-> WriterErr(rw),
                              err |-> r.err, size |-> r.size, calls |-> r.calls,
                              from |-> Len(sink)]
             /\ written' = IF r.err = Nil THEN Append(written, data) ELSE written
             /\ frameEnds' = IF r.err = Nil THEN Append(frameEnds, Len(r.sink))
                             ELSE frameEnds
    /\ UNCHANGED << variant, phase, rr, br, damage, lastRead, readLog >>

\* NewReader on a source that holds exactly what the sink received
NewReader ==
    /\ phase = "write"
    /\ \E kind \in SourceKinds, options \in ReaderOptions :
         /\ br' = NewSource(sink, kind, EOF)
         /\ rr' = IF variant = "A" THEN NewReaderA ELSE NewReaderB(options)
    /\ phase' = "read"
    /\ lastWrite' = NoWrite
    /\ UNCHANGED << variant, rw, sink, written, frameEnds, damage,
                    lastRead, readLog >>

\* a ReadRecord call
ReadRecord ==
    /\ phase = "read"
    /\ Len(readLog) < Len(frameEnds) + ExtraReads
    /\ \E dstLen \in DstLens :
       \E r \in { IF variant = "A" THEN ReadRecordA(rr, br, dstLen)
                    ELSE ReadRecordB(rr, br) } :
             /\ rr' = r.rr
             /\ br' = r.br
             /\ lastRead' = [called |-> TRUE,
                             dstLen |-> IF r.err = Nil THEN dstLen ELSE 0,
                             poisoned |-> ReaderErr(rr),
                             out |-> r.out, err |-> r.err, reads |-> r.reads,
                             buf |-> r.buf, decoded |-> r.decoded,
                             header |-> r.header,
                             from |-> br.pos, to |-> r.br.pos]
             /\ readLog' = Append(readLog, [out |-> r.out, err |-> r.err])
    /\ UNCHANGED << variant, rw, sink, phase, lastWrite, written, frameEnds, damage >>

\* bit k of the byte b flipped
FlipBit(b, k) == IF (b \div (2 ^ k)) % 2 = 1 THEN b - 2 ^ k ELSE b + 2 ^ k

\* what the source holds when d happens to the bytes of the sink
Damaged(data, d) ==
    CASE d.type = "flip" -> [data EXCEPT ![d.at] = FlipBit(@, d.bit)]
      [] d.type = "cut" -> SubSeq(data, 1, d.len)
      [] OTHER -> data

\* one bit of the sink flipped, or the sink cut short
Damages ==
    { [type |-> "flip", at |-> i, bit |-> k] : i \in 1..Len(sink), k \in 0..7 }
    \cup { [type |-> "cut", len |-> n] : n \in 0..(Len(sink) - 1) }

\* NewReader on a source that holds the sink's bytes damaged; a source that
\* was cut short ends with io.EOF or with an error of its own.  bytes.Buffer
\* differs from bytes.Reader in its Reads of no bytes at the end alone, which
\* a flipped bit does not bring about.
OpenDamaged ==
    /\ phase = "write"
    /\ \E d \in Damages, options \in ReaderOptions :
       \E kind \in (IF d.type = "cut" THEN SourceKinds
                    ELSE SourceKinds \ {"bytes.Buffer"}) :
       \E end \in (IF d.type = "cut" THEN {EOF, ErrIO} ELSE {EOF}) :
         /\ br' = NewSource(Damaged(sink, d), kind, end)
         /\ rr' = IF variant = "A" THEN NewReaderA ELSE NewReaderB(options)
         /\ damage' = d
    /\ phase' = "read"
    /\ lastWrite' = NoWrite
    /\ UNCHANGED << variant, rw, sink, written, frameEnds, lastRead, readLog >>

Next ==
    \/ WriteRecord(MaxRecords, {WriteOk})
    \/ NewReader
    \/ ReadRecord

\* a sink that works, a source that holds what the sink received
Spec == Init /\ [][Next]_vars

NextSink ==
    \/ WriteRecord(MaxRecords, WriteOutcomes)
    \/ NewReader
    \/ ReadRecord

\* a sink whose Writes may fall short or fail
SpecSink == Init /\ [][NextSink]_vars

NextCorrupt ==
    \/ WriteRecord(MaxCorruptRecords, {WriteOk})
    \/ NewReader
    \/ OpenDamaged
    \/ ReadRecord

\* a sink that works, a source whose bytes may have been damaged
SpecCorrupt == Init /\ [][NextCorrupt]_vars

\* NewReader on a source that holds what the sink received and delivers it
\* in parts
OpenChunked ==
    /\ phase = "write"
    /\ \E kind \in ChunkedKinds, options \in ReaderOptions :
         /\ br' = NewSource(sink, kind, EOF)
         /\ rr' = IF variant = "A" THEN NewReaderA ELSE NewReaderB(options)
    /\ phase' = "read"
    /\ lastWrite' = NoWrite
    /\ UNCHANGED << variant, rw, sink, written, frameEnds, damage,
                    lastRead, readLog >>

\* what ReadRecord returns after the loop left u
gunzipReturn(u) ==
    IF u.readErr \in {Nil, EOF, ErrUnexpectedEOF}
    THEN [out |-> u.out, err |-> Nil, buf |-> "new"]
    ELSE [out |-> << >>, err |-> ErrReadBytes, buf |-> "nil"]

\* the streams a gzip.Reader delivers for a body of up to MaxBodyLength bytes
\* that a compressing gzip.Writer produced, and how they end
Expanded == SeqsUpTo(RecordBytes, MaxExpanded)
ExpandedEnds == {EOF, ErrUnexpectedEOF, FlateCorrupt}

\* variant B's ReadRecord from gzip.NewReader on, for a frame whose body of
\* bodyLength bytes expands to out: lastRead holds the stream next to what
\* the call returns
ReadExpanding ==
    /\ phase = "write"
    /\ variant = "B"
    /\ ~lastWrite.called
    /\ \E out \in Expanded, bodyLength \in 1..MaxBodyLength, end \in ExpandedEnds :
       \E u \in { gunzipAll([out |-> out, err |-> end], bodyLength) } :
       \E r \in { gunzipReturn(u) } :
          lastRead' = [called |-> TRUE, dstLen |-> 0, poisoned |-> Nil,
                       out |-> r.out, err |-> r.err, reads |-> 2, buf |-> r.buf,
                       decoded |-> TRUE,
                       header |-> [bodyLength |-> bodyLength, flags |-> GzipCompress,
                                   bodyChecksum |-> << 0, 0, 0, 0 >>],
                       from |-> 0, to |-> 0,
                       expanded |-> out, readErr |-> u.readErr]
    /\ phase' = "gunzip"
    /\ UNCHANGED << variant, rw, sink, lastWrite, written, frameEnds, rr, br,
                    damage, readLog >>

NextBuffers ==
    \/ WriteRecord(MaxRecords, {WriteOk})
    \/ NewReader
    \/ ReadRecord
    \/ ReadExpanding

\* a sink that works and a source that holds what it received, and frames of
\* variant B whose bodies expand beyond twice their length
SpecBuffers == Init /\ [][NextBuffers]_vars

\* the frames of variant A's Writer
LoopFrames ==
    { WriteRecordA(NewWriterA(f), << >>, data, 0, WriteOk, WriteOk, WriteOk).sink :
        data \in Records, f \in {DefaultFlagsA, NoCompression} }

\* those frames whole and cut at every length, on every kind of source
LoopSources ==
    UNION { { NewSource(SubSeq(frame, 1, n), kind, end) :
                n \in 0..Len(frame),
                kind \in SourceKinds \cup ChunkedKinds \cup {"NoProgress"},
                end \in {EOF, ErrIO} } : frame \in LoopFrames }

\* a ReadRecord call under way, taken turn by turn: variant A is in the readn
\* of its header, variant B at the loop over gzipReader.Read.  decoded is what
\* header.decode makes of the twelve bytes the source starts with, which are
\* the bytes the readn of the header delivers when it returns nil.
InitLoops ==
    /\ variant \in {"A", "B"}
    /\ rw = IF variant = "A" THEN NewWriterA(DefaultFlagsA) ELSE NewWriterB(DefaultFlagsB)
    /\ sink = << >>
    /\ phase = "read"
    /\ lastWrite = NoWrite
    /\ written = << >>
    /\ frameEnds = << >>
    /\ rr = IF variant = "A" THEN NewReaderA ELSE NewReaderB(0)
    /\ br \in (IF variant = "A" THEN LoopSources
               ELSE { NewSource(<< >>, "bytes.Reader", EOF) })
    /\ damage = NoDamage
    /\ lastRead \in (IF variant = "A"
                     THEN { [called |-> TRUE, pc |-> "header",
                             total |-> recordHeaderStorageSize,
                             st |-> readnStart(br),
                             decoded |-> IF Len(br.data) >= recordHeaderStorageSize
                                         THEN decode(ZeroHeaderA,
                                                     SubSeq(br.data, 1,
                                                            recordHeaderStorageSize))
                                         ELSE [err |-> Nil, header |-> ZeroHeaderA],
                             err |-> Nil] }
                     ELSE { [called |-> TRUE, pc |-> "gunzip",
                             g |-> [out |-> out, err |-> end],
                             st |-> gunzipStart(bodyLength),
                             err |-> Nil] :
                               out \in Expanded, end \in ExpandedEnds,
                               bodyLength \in 1..MaxBodyLength })
    /\ readLog = << >>

\* one turn of the readn that variant A's ReadRecord is in; st.reads counts
\* the Reads modulo 2.  When the readn of the header returns nil and the
\* header is valid the call goes on to the readn of readBody; in every other
\* case a readn that returns is followed by the return of the call, which
\* has no other loop.  err is the error of the readn that returned last.
ReadnTurn ==
    /\ variant = "A"
    /\ lastRead.called
    /\ lastRead.pc \in {"header", "body"}
    /\ \E st \in { readnStep(lastRead.total, lastRead.st) } :
         /\ br' = st.br
         /\ lastRead' =
              IF ~st.done
              THEN [lastRead EXCEPT !.st = [st EXCEPT !.reads = @ % 2]]
              ELSE IF st.err = Nil /\ lastRead.pc = "header"
                      /\ lastRead.decoded.err = Nil
              THEN [lastRead EXCEPT
                      !.pc = "body",
                      !.total = lastRead.decoded.header.bodyLength + TrailerSize,
                      !.st = readnStart(st.br)]
              ELSE [lastRead EXCEPT !.pc = "returned", !.st = st, !.err = st.err]
    /\ UNCHANGED << variant, rw, sink, phase, lastWrite, written, frameEnds,
                    rr, damage, readLog >>

\* one turn of the loop over gzipReader.Read that variant B's ReadRecord is
\* in; when the loop ends the call returns, err being the loop's readErr
GunzipTurn ==
    /\ variant = "B"
    /\ lastRead.called
    /\ lastRead.pc = "gunzip"
    /\ \E st \in { gunzipStep(lastRead.g, lastRead.st) } :
         lastRead' = IF ~st.done THEN [lastRead EXCEPT !.st = st]
                     ELSE [lastRead EXCEPT !.pc = "returned", !.st = st,
                                           !.err = st.readErr]
    /\ UNCHANGED << variant, rw, sink, phase, lastWrite, written, frameEnds,
                    rr, br, damage, readLog >>

NextLoops ==
    \/ ReadnTurn
    \/ GunzipTurn

\* a ReadRecord call taken turn by turn: the call goes on for as long as it
\* has a turn to take
SpecLoops ==
    InitLoops /\ [][NextLoops]_vars /\ WF_vars(ReadnTurn) /\ WF_vars(GunzipTurn)

NextChunked ==
    \/ WriteRecord(MaxRecords, {WriteOk})
    \/ OpenChunked
    \/ ReadRecord

\* a sink that works, a source that delivers what the sink received in parts
SpecChunked == Init /\ [][NextChunked]_vars

----------------------------------------------------------------------------
(* What the claims speak of. *)

\* where the k-th frame of the sink starts (0-based offset)
FrameStart(k) == IF k = 1 THEN 0 ELSE frameEnds[k - 1]

\* the source holds exactly what the sink received
Undamaged == phase = "read" /\ damage = NoDamage

\* the last ReadRecord call was made on a Reader that was not poisoned
FreshRead == lastRead.called /\ lastRead.poisoned = Nil

\* the step is a WriteRecord call
IsWriteStep ==
    /\ phase' = "write"
    /\ lastWrite'.called
    /\ (~lastWrite.called \/ lastWrite'.call # lastWrite.call)

\* the step is a ReadRecord call
IsReadStep == phase = "read" /\ Len(readLog') = Len(readLog) + 1

\* the bytes the Writes of a call put on the sink
RECURSIVE Accepted(_)
Accepted(calls) ==
    IF calls = << >> THEN 0 ELSE calls[1].n + Accepted(Tail(calls))

\* the header of the frame that starts at offset from, as its decoder sees it
HeaderAt(data, from) ==
    LET got == SubSeq(data, from + 1, Min(from + HeaderSize, Len(data)))
        buf == got \o Zeros(HeaderSize - Len(got))
    IN  IF variant = "A" THEN decode(ZeroHeaderA, buf)
        ELSE UnmarshalBinary(ZeroHeaderB, buf)

----------------------------------------------------------------------------
\* C1: round trip.  When WriteRecord(b) succeeded on a sink, the first
\* ReadRecord of a fresh Reader over the bytes the sink received returns b and
\* no error (stated here for a source that behaves as bytes.Reader does).
C1_RoundTrip ==
    (Undamaged /\ br.kind = "bytes.Reader" /\ Len(written) >= 1 /\ Len(readLog) >= 1)
        => readLog[1] = [out |-> written[1], err |-> Nil]

\* a compressed record of two bytes has made the round trip
C1_Witness ==
    /\ Undamaged /\ variant = "B" /\ HasFlag(rw.Options, GzipCompress)
    /\ Len(written) >= 1 /\ Len(written[1]) = 2
    /\ Len(readLog) >= 1 /\ readLog[1] = [out |-> written[1], err |-> Nil]

\* C2: frame sequencing.  After n successful WriteRecord calls a fresh Reader
\* returns the n records in order, reports io.EOF on call n+1, and every
\* successful ReadRecord consumes one frame exactly.
C2_FrameSequencing ==
    (Undamaged /\ br.kind = "bytes.Reader") =>
        /\ \A k \in 1..Len(readLog) :
             /\ k <= Len(written) => readLog[k] = [out |-> written[k], err |-> Nil]
             /\ k = Len(written) + 1 => readLog[k] = [out |-> << >>, err |-> EOF]
        /\ (lastRead.called /\ lastRead.err = Nil) =>
             /\ Len(readLog) <= Len(frameEnds)
             /\ lastRead.from = FrameStart(Len(readLog))
             /\ lastRead.to = frameEnds[Len(readLog)]

\* two records were read back in order and the third call reported io.EOF
C2_Witness ==
    /\ Undamaged /\ Len(written) = 2 /\ Len(readLog) = 3
    /\ written[1] # written[2]
    /\ readLog[1] = [out |-> written[1], err |-> Nil]
    /\ readLog[2] = [out |-> written[2], err |-> Nil]
    /\ readLog[3].err = EOF

\* C3: reader poison stickiness.  Once a ReadRecord call has returned a genuine
\* error, no step changes the Reader, and every ReadRecord call returns that
\* error without a Read on the source.
C3_ReaderPoisonSticky ==
    [][ (lastRead.called /\ lastRead.err \notin {Nil, EOF}) =>
          /\ ReaderErr(rr) = lastRead.err
          /\ rr' = rr
          /\ br' = br
          /\ IsReadStep =>
               /\ lastRead'.err = lastRead.err
               /\ lastRead'.out = << >>
               /\ lastRead'.reads = 0 ]_vars

\* a call on a Reader poisoned by a genuine error, with bytes left to read
C3_Witness ==
    /\ lastRead.called
    /\ lastRead.poisoned \notin {Nil, EOF}
    /\ lastRead.err = lastRead.poisoned
    /\ lastRead.reads = 0
    /\ br.pos < Len(br.data)

\* C4: writer poison stickiness.  A WriteRecord call on a Writer that is not
\* poisoned poisons it exactly when it fails; on a poisoned Writer it changes
\* neither the Writer nor the sink, issues no Write and returns the stored
\* error.
C4_WriterPoisonSticky ==
    [][ IsWriteStep =>
          IF WriterErr(rw) # Nil
          THEN /\ rw' = rw
               /\ sink' = sink
               /\ lastWrite'.err = WriterErr(rw)
               /\ lastWrite'.calls = << >>
          ELSE (WriterErr(rw') # Nil) <=> (lastWrite'.err # Nil) ]_vars

\* a call on a poisoned Writer
C4_Witness ==
    /\ lastWrite.called
    /\ lastWrite.poisoned # Nil
    /\ lastWrite.err = lastWrite.poisoned
    /\ lastWrite.calls = << >>
    /\ Len(sink) > 0

\* C5: clean end of stream.  A ReadRecord call on a Reader that is not
\* poisoned, made when the source is exhausted at a frame boundary, returns
\* io.EOF and leaves the Reader's sticky error unset.
C5_CleanEndNotPoisoning ==
    (Undamaged /\ FreshRead /\ lastRead.from = Len(br.data))
        => (lastRead.err = EOF /\ ReaderErr(rr) = Nil)

\* such a call was made, after a record was read, and returned io.EOF
C5_Witness ==
    /\ Undamaged /\ FreshRead /\ lastRead.from = Len(br.data)
    /\ Len(readLog) = 2 /\ readLog[1].err = Nil /\ lastRead.err = EOF

\* C6: write failure poisons.  When a Write of a WriteRecord call accepts
\* fewer bytes than requested or returns an error, the call returns an error
\* and poisons the Writer, and the sink keeps what the Writes accepted.
C6_WriteFailurePoisons ==
    (/\ lastWrite.called
     /\ lastWrite.poisoned = Nil
     /\ \E i \in DOMAIN lastWrite.calls :
          lastWrite.calls[i].n < lastWrite.calls[i].want
          \/ lastWrite.calls[i].err # Nil)
        => /\ lastWrite.err # Nil
           /\ WriterErr(rw) # Nil
           /\ Len(sink) = lastWrite.from + Accepted(lastWrite.calls)

\* a short Write made the call fail and left its bytes on the sink
C6_Witness ==
    /\ lastWrite.called /\ lastWrite.poisoned = Nil
    /\ \E i \in DOMAIN lastWrite.calls :
         /\ lastWrite.calls[i].n < lastWrite.calls[i].want
         /\ lastWrite.calls[i].n > 0
    /\ lastWrite.err = ErrWriteBytes /\ WriterErr(rw) = ErrWriteBytes
    /\ Len(sink) = lastWrite.from + Accepted(lastWrite.calls)

\* the body of the k-th frame, as offsets into the sink (1-based, inclusive)
BodyFirst(k) == FrameStart(k) + HeaderSize + 1
BodyLast(k) == IF variant = "A" THEN frameEnds[k] - TrailerSize ELSE frameEnds[k]

\* one bit of the k-th frame's body was flipped, and the last ReadRecord call
\* is the one that read that frame, on a Reader that was not poisoned
ReadFlippedBody(k) ==
    /\ phase = "read"
    /\ damage.type = "flip"
    /\ damage.at \in BodyFirst(k)..BodyLast(k)
    /\ FreshRead
    /\ lastRead.from = FrameStart(k)

\* the body's bytes were flagged as checksummed when the frame was written
WrittenWithChecksum == variant = "A" \/ HasFlag(rw.Options, BodyChecksum)

\* the corruption was reported and nothing was returned
ChecksumReported ==
    /\ lastRead.err = ErrChecksum
    /\ ReaderErr(rr) = ErrChecksum
    /\ lastRead.out = << >>

HeaderMismatch ==
    LET got == SubSeq(br.data, lastRead.from + 1,
                      Min(lastRead.from + HeaderSize, Len(br.data)))
        buf == got \o Zeros(HeaderSize - Len(got))
    IN  SubSeq(buf, HeaderSize - 3, HeaderSize)
            # ChecksumIEEE(SubSeq(buf, 1, HeaderSize - 4))

\* one bit of the checksummed header bytes of the k-th frame was flipped
FlippedHeader(k) ==
    /\ damage.type = "flip"
    /\ damage.at \in (FrameStart(k) + 1)..(FrameStart(k) + HeaderSize - 4)

\* C8: header corruption detection.  When ReadRecord hands decode (variant B:
\* UnmarshalBinary) a header whose stored checksum differs from the CRC32 of
\* the bytes before it, as after a single flipped bit in those bytes, decode
\* returns ErrChecksum and leaves the header's fields as they were, and
\* ReadRecord poisons the Reader and reads nothing past the header.
C8_HeaderCorruptionDetected ==
    /\ (phase = "read" /\ FreshRead /\ lastRead.decoded /\ HeaderMismatch) =>
         /\ lastRead.err = ErrChecksum
         /\ lastRead.header = (IF variant = "A" THEN ZeroHeaderA ELSE ZeroHeaderB)
         /\ ReaderErr(rr) = ErrChecksum
         /\ lastRead.out = << >>
         /\ lastRead.to <= lastRead.from + HeaderSize
    /\ \A k \in 1..Len(frameEnds) :
         (phase = "read" /\ FreshRead /\ lastRead.decoded /\ FlippedHeader(k)
          /\ lastRead.from = FrameStart(k))
             => HeaderMismatch

\* a flipped bit in the length field of a header was reported
C8_Witness ==
    /\ phase = "read" /\ FreshRead /\ lastRead.decoded
    /\ FlippedHeader(1) /\ damage.at = 1
    /\ lastRead.from = 0
    /\ lastRead.err = ErrChecksum
    /\ lastRead.to = HeaderSize
    /\ Len(br.data) > HeaderSize

\* the record of the last WriteRecord call was compressed
Compressed ==
    IF variant = "A"
    THEN ~HasFlag(FlagsOr(lastWrite.flags, rw.Flags), NoCompression)
    ELSE HasFlag(rw.Options, GzipCompress)

\* C9: bodyLength.  In the frame of a successful WriteRecord the header's
\* bodyLength is the number of bytes written to the sink right after the
\* header: the compressed length of a compressed record, which is not its
\* length before compression, and the record's length otherwise.
C9_BodyLengthOnTheWire ==
    (phase = "write" /\ lastWrite.called /\ lastWrite.err = Nil) =>
        LET h == HeaderAt(sink, lastWrite.from)
            onWire == Len(sink) - lastWrite.from - HeaderSize
                      - (IF variant = "A" THEN TrailerSize ELSE 0)
        IN  /\ h.err = Nil
            /\ h.header.bodyLength = onWire
            /\ h.header.bodyLength = lastWrite.calls[2].n
            /\ IF Compressed
               THEN h.header.bodyLength # Len(lastWrite.data)
               ELSE h.header.bodyLength = Len(lastWrite.data)

\* a record of two bytes was written compressed, as the second frame
C9_Witness ==
    /\ phase = "write" /\ lastWrite.called /\ lastWrite.err = Nil
    /\ lastWrite.call = 2 /\ lastWrite.from > 0
    /\ Compressed
    /\ Len(lastWrite.data) = 2
    /\ HeaderAt(sink, lastWrite.from).header.bodyLength > 2

\* C10: truncated header.  When the source holds at least one byte and fewer
\* than a header's at a frame boundary and then ends, ReadRecord returns an
\* error that is not io.EOF, poisons the Reader and returns no record.
C10_TruncatedHeaderIsError ==
    (/\ phase = "read"
     /\ damage.type = "cut"
     /\ br.end = EOF
     /\ FreshRead
     /\ lastRead.from \in {0} \cup {frameEnds[k] : k \in 1..Len(frameEnds)}
     /\ Len(br.data) - lastRead.from \in 1..(HeaderSize - 1))
        => /\ lastRead.err \notin {Nil, EOF}
           /\ ReaderErr(rr) \notin {Nil, EOF}
           /\ lastRead.out = << >>

\* variant A reported such a header as io.ErrUnexpectedEOF
C10_Witness ==
    /\ phase = "read" /\ damage.type = "cut" /\ br.end = EOF /\ FreshRead
    /\ variant = "A"
    /\ lastRead.from = 0
    /\ Len(br.data) \in 1..(HeaderSize - 1)
    /\ lastRead.err = ErrUnexpectedEOF

----------------------------------------------------------------------------
\* the source was cut inside the body (or the trailer) of the k-th frame, its
\* header being whole, and the last ReadRecord started at that frame on a
\* Reader that was not poisoned
CutInBody(k) ==
    /\ phase = "read"
    /\ damage.type = "cut"
    /\ br.end = EOF
    /\ FreshRead
    /\ k \in 1..Len(frameEnds)
    /\ lastRead.from = FrameStart(k)
    /\ damage.len \in (FrameStart(k) + HeaderSize)..(frameEnds[k] - 1)

\* C11: truncated body.  When a whole valid header was read and the source
\* ends before the body (and, in variant A, the trailer) is complete, also
\* when it ends right after the header, ReadRecord returns an error that is
\* not io.EOF, poisons the Reader with it and returns no record.
C11_TruncatedBodyIsError ==
    \A k \in 1..Len(frameEnds) :
        CutInBody(k) => /\ lastRead.err \notin {Nil, EOF}
                        /\ ReaderErr(rr) \notin {Nil, EOF}
                        /\ lastRead.out = << >>

\* variant A read a source that ends right after the first header
C11_Witness ==
    /\ CutInBody(1)
    /\ variant = "A"
    /\ br.kind = "bytes.Reader"
    /\ damage.len = HeaderSize
    /\ lastRead.decoded
    /\ lastRead.reads = 2

----------------------------------------------------------------------------
\* the counts variant B's WriteRecord returned for the first k records it
\* accepted, each call taken again on the sink as it stood
RECURSIVE ReturnedB(_)
ReturnedB(k) ==
    IF k = 0 THEN 0
    ELSE ReturnedB(k - 1)
         + WriteRecordB(rw, SubSeq(sink, 1, FrameStart(k)), written[k],
                        WriteOk, WriteOk).size

\* C12: written byte count, variant B.  A WriteRecord that succeeds returns
\* the number of bytes it put on the sink for its frame, 16 plus the length
\* of the body as written, and the counts returned by the successful calls
\* add up to the length of the sink.
C12_WrittenByteCount ==
    variant = "B" =>
        /\ ReturnedB(Len(written)) = Len(sink)
        /\ (phase = "write" /\ lastWrite.called /\ lastWrite.err = Nil) =>
               /\ lastWrite.size = Len(sink) - lastWrite.from
               /\ lastWrite.size = Accepted(lastWrite.calls)
               /\ lastWrite.size
                    = recordHeaderSize + HeaderAt(sink, lastWrite.from).header.bodyLength
               /\ lastWrite.size
                    = recordHeaderSize + Len(BodyB(lastWrite.data, rw.Options))

\* a gzip Writer of variant B wrote a second record, of two bytes
C12_Witness ==
    /\ variant = "B"
    /\ phase = "write" /\ lastWrite.called /\ lastWrite.err = Nil
    /\ lastWrite.call = 2
    /\ HasFlag(rw.Options, GzipCompress)
    /\ Len(lastWrite.data) = 2
    /\ lastWrite.size > recordHeaderSize + 2
    /\ Len(written) = 2

----------------------------------------------------------------------------
\* C13: result ownership, variant A.  The slice a successful ReadRecord(dst)
\* returns is a slice of dst, which then holds the record, or of a buffer
\* allocated by the call; it is never a slice of the Reader's uncompressBuf,
\* which later calls overwrite.
C13_ResultOwnership ==
    (variant = "A" /\ phase = "read" /\ FreshRead /\ lastRead.err = Nil) =>
        /\ lastRead.buf \in {"dst", "new"}
        /\ lastRead.buf = "dst" => Len(lastRead.out) <= lastRead.dstLen
        /\ (lastRead.buf = "new" /\ ~HasFlag(lastRead.header.flags, NoCompression))
              => Len(lastRead.out) > lastRead.dstLen
        /\ (lastRead.buf = "new" /\ HasFlag(lastRead.header.flags, NoCompression))
              => Len(lastRead.out) + TrailerSize > lastRead.dstLen

\* a compressed record of two bytes went through uncompressBuf into a dst
\* that holds it
C13_Witness ==
    /\ variant = "A" /\ phase = "read" /\ FreshRead /\ lastRead.err = Nil
    /\ ~HasFlag(lastRead.header.flags, NoCompression)
    /\ Len(lastRead.out) = 2
    /\ lastRead.dstLen = 8
    /\ lastRead.buf = "dst"

----------------------------------------------------------------------------
\* (out, err) of the first n ReadRecord calls of the Reader r on the source b
RECURSIVE ResultsOf(_, _, _)
ResultsOf(r, b, n) ==
    LET then(x) == << [out |-> x.out, err |-> x.err] >> \o ResultsOf(x.rr, x.br, n - 1)
    IN  IF n = 0 THEN << >>
        ELSE then(IF variant = "A" THEN ReadRecordA(r, b, 0) ELSE ReadRecordB(r, b))

\* what a Reader created as rr was returns when every Read on the bytes of the
\* source is delivered in full
DeliveredInFull(n) ==
    ResultsOf(IF variant = "A" THEN NewReaderA ELSE NewReaderB(rr.Options),
              NewSource(br.data, "bytes.Reader", br.end), n)

\* C14: partial-read tolerance.  On a source that delivers its Reads in
\* parts, each of at least one byte and with a nil error, the ReadRecord calls
\* return what they return when the same bytes are delivered in full: the
\* same records, errors and end of stream.
C14_PartialReadTolerance ==
    (phase = "read" /\ br.kind \in ChunkedKinds)
        => readLog = DeliveredInFull(Len(readLog))

\* variant A read two records from a source that delivers one byte a Read
C14_Witness ==
    /\ phase = "read" /\ br.kind = "iotest.OneByteReader"
    /\ variant = "A"
    /\ Len(readLog) = 2
    /\ Len(written) = 2
    /\ lastRead.err = Nil
    /\ lastRead.out = written[2]
    /\ Len(lastRead.out) = 2
    /\ lastRead.reads > 3

----------------------------------------------------------------------------
\* the Writes of one WriteRecord call, in the order the variant issues them
WriteOrder ==
    IF variant = "A" THEN << "header", "body", "checksum" >> ELSE << "header", "body" >>

\* the Write fell short or returned an error
WriteFailed(c) == c.n # c.want \/ c.err # Nil

\* the Write fell short
WriteShort(c) == c.n # c.want

\* the last WriteRecord call was made on a Writer that was not poisoned
FreshWrite == phase = "write" /\ lastWrite.called /\ lastWrite.poisoned = Nil

\* the bytes of the sink from offset from + 1 to offset to
SinkBytes(from, to) == SubSeq(sink, from + 1, to)

\* the frame of the last call lies on the sink as header, body and, in
\* variant A, the checksum of the body
FrameInOrder ==
    LET h == HeaderAt(sink, lastWrite.from)
        bodyFrom == lastWrite.from + HeaderSize
        bodyTo == bodyFrom + h.header.bodyLength
    IN  /\ h.err = Nil
        /\ IF variant = "A"
           THEN /\ Len(sink) = bodyTo + TrailerSize
                /\ SinkBytes(bodyTo, Len(sink)) = ChecksumIEEE(SinkBytes(bodyFrom, bodyTo))
           ELSE Len(sink) = bodyTo

\* C15: write ordering.  A WriteRecord on a Writer that is not poisoned
\* issues its Writes in the order header, body and, in variant A, trailer; a
\* call that succeeds issues all three (variant B: both) and leaves the frame
\* on the sink in that order; after a Write that failed (fell short or
\* returned an error) the call issues no other.
C15_WriteOrdering ==
    FreshWrite =>
        /\ Len(lastWrite.calls) \in 1..Len(WriteOrder)
        /\ \A i \in 1..Len(lastWrite.calls) : lastWrite.calls[i].what = WriteOrder[i]
        /\ lastWrite.err = Nil => /\ Len(lastWrite.calls) = Len(WriteOrder)
                                  /\ FrameInOrder
        /\ \A i \in 1..(Len(lastWrite.calls) - 1) : ~WriteFailed(lastWrite.calls[i])

\* variant A stopped after a body Write that fell short
C15_Witness ==
    /\ FreshWrite
    /\ variant = "A"
    /\ Len(lastWrite.calls) = 2
    /\ ~WriteFailed(lastWrite.calls[1])
    /\ WriteShort(lastWrite.calls[2])
    /\ lastWrite.err = ErrWriteBytes

----------------------------------------------------------------------------
\* NoCompression is set in the flags of the last call or in those of its Writer
AskedUncompressed ==
    HasFlag(lastWrite.flags, NoCompression) \/ HasFlag(rw.Flags, NoCompression)

\* the header flags and the body bytes of the k-th frame of the sink
FrameFlags(k) == HeaderAt(sink, FrameStart(k)).header.flags
FrameBody(k) ==
    SinkBytes(FrameStart(k) + HeaderSize,
              FrameStart(k) + HeaderSize + HeaderAt(sink, FrameStart(k)).header.bodyLength)

\* C16: per-record flags, variant A.  The flags a frame's header carries are
\* those of the WriteRecord call or'ed with those of the Writer; the body on
\* the wire is the snappy encoding of the record exactly when NoCompression
\* is clear in them, the record itself otherwise; and the Reader, which has
\* no flags of its own, returns every record of a stream as written, whatever
\* the flags of its frames.
C16_PerRecordFlags ==
    variant = "A" =>
        /\ (phase = "write" /\ lastWrite.called /\ lastWrite.err = Nil) =>
              /\ FrameFlags(Len(written))
                    = (IF AskedUncompressed THEN NoCompression ELSE 0)
              /\ FrameBody(Len(written))
                    = (IF AskedUncompressed THEN lastWrite.data
                       ELSE SnappyEncode(lastWrite.data))
        /\ Undamaged =>
              \A k \in 1..Min(Len(readLog), Len(written)) :
                  readLog[k] = [out |-> written[k], err |-> Nil]

\* variant A read back a compressed record and an uncompressed one from the
\* same stream
C16_Witness ==
    /\ variant = "A" /\ Undamaged
    /\ Len(written) = 2 /\ Len(readLog) = 2
    /\ ~HasFlag(FrameFlags(1), NoCompression)
    /\ HasFlag(FrameFlags(2), NoCompression)
    /\ Len(written[1]) = 2
    /\ FrameBody(1) # written[1]
    /\ readLog[1] = [out |-> written[1], err |-> Nil]
    /\ readLog[2] = [out |-> written[2], err |-> Nil]

----------------------------------------------------------------------------
\* the body of the frame the last ReadRecord read, as the source holds it, and
\* the four bytes after it
RawBody ==
    SubSeq(br.data, lastRead.from + HeaderSize + 1,
           lastRead.from + HeaderSize + lastRead.header.bodyLength)
RawTrailer ==
    SubSeq(br.data, lastRead.from + HeaderSize + lastRead.header.bodyLength + 1,
           lastRead.from + HeaderSize + lastRead.header.bodyLength + TrailerSize)

\* the last ReadRecord, on a Reader that was not poisoned, found a valid
\* header that says compressed, read the whole body and found no fault with
\* its checksum: the body went to the decompressor
ReachedDecompressor ==
    /\ phase = "read"
    /\ FreshRead
    /\ lastRead.decoded
    /\ HeaderAt(br.data, lastRead.from).err = Nil
    /\ IF variant = "A"
       THEN /\ ~HasFlag(lastRead.header.flags, NoCompression)
            /\ lastRead.to = lastRead.from + HeaderSize
                                + lastRead.header.bodyLength + TrailerSize
            /\ ChecksumIEEE(RawBody) = RawTrailer
       ELSE /\ HasFlag(lastRead.header.flags, GzipCompress)
            /\ lastRead.header.bodyLength > 0
            /\ lastRead.to = lastRead.from + HeaderSize + lastRead.header.bodyLength
            /\ (br.kind = "DataErrReader" => lastRead.to < Len(br.data))
            /\ \/ ~HasFlag(rr.Options, BodyChecksum)
               \/ ~HasFlag(lastRead.header.flags, BodyChecksum)
               \/ lastRead.header.bodyChecksum = ChecksumIEEE(RawBody)

\* the error the decompressor reports on that body; Nil when it reports none
\* (io.EOF from a gzip.Reader is the end of the data)
DecompressorError ==
    IF variant = "A"
    THEN IF SnappyDecode(RawBody).ok THEN Nil ELSE "snappy.ErrCorrupt"
    ELSE IF GzipNewReader(RawBody) # Nil THEN GzipNewReader(RawBody)
    ELSE IF GzipReadAll(RawBody).err = EOF THEN Nil
    ELSE GzipReadAll(RawBody).err

\* C17: decompression failure poisons.  When the header says compressed and
\* the decompressor reports an error on the body, a stream that ends
\* unexpectedly included, ReadRecord returns an error, poisons the Reader and
\* returns no data.
C17_DecompressionFailurePoisons ==
    (ReachedDecompressor /\ DecompressorError # Nil)
        => /\ lastRead.err # Nil
           /\ ReaderErr(rr) # Nil
           /\ lastRead.out = << >>

\* variant B refused a gzip body in which a flipped bit broke a stored block
C17_Witness ==
    /\ ReachedDecompressor
    /\ variant = "B"
    /\ damage.type = "flip"
    /\ DecompressorError = FlateCorrupt
    /\ lastRead.err = ErrReadBytes
    /\ ReaderErr(rr) = ErrReadBytes
    /\ lastRead.out = << >>

----------------------------------------------------------------------------
\* C18: buffer sizing never truncates.  A ReadRecord that succeeds returns
\* the record as it was written, in length and content, whatever the sizes of
\* the buffers: in variant A for a nil dst, one shorter than the record, one
\* shorter than the body with its trailer and a longer one; in variant B for
\* every expansion of the body, the buffer of twice bodyLength doubling
\* whenever it fills and keeping its bytes.
C18_BufferSizingNeverTruncates ==
    /\ (Undamaged /\ FreshRead /\ lastRead.err = Nil) =>
          /\ Len(readLog) <= Len(written)
          /\ lastRead.out = written[Len(readLog)]
    /\ (phase = "gunzip" /\ lastRead.err = Nil) =>
          lastRead.out = lastRead.expanded

\* variant B decompressed a body of one byte that expands to five: its buffer
\* of two bytes doubled twice
C18_Witness ==
    /\ phase = "gunzip"
    /\ lastRead.header.bodyLength = 1
    /\ Len(lastRead.expanded) = 5
    /\ lastRead.err = Nil
    /\ lastRead.out = lastRead.expanded

----------------------------------------------------------------------------
\* the ReadRecord call under way has returned
Returned == lastRead.called /\ lastRead.pc = "returned"

\* the source answers every Read of one byte or more with a byte or an error
SourceProgresses == br.kind # "NoProgress"

\* C19, as claimed: every ReadRecord call returns, each Read on the source
\* returning.
C19_AsClaimed == (lastRead.called /\ ~Returned) ~> Returned

\* C19: termination of reads.  Every ReadRecord call returns on a source
\* whose Reads return and bring, when asked for a byte or more, a byte or an
\* error: readn's loop ends when the bytes asked for are in or the source
\* reports io.EOF or an error, and variant B's loop over the decompressor ends
\* when that reports the end of its data or an error.
C19_ReadsTerminate == (lastRead.called /\ ~Returned /\ SourceProgresses) ~> Returned

\* variant A returned after it read the frame of a record of two bytes a byte
\* at a time
C19_Witness ==
    /\ Returned
    /\ variant = "A"
    /\ br.kind = "iotest.OneByteReader"
    /\ lastRead.err = Nil
    /\ lastRead.total = 2 + TrailerSize
    /\ lastRead.st.i = lastRead.total
    /\ br.pos = Len(br.data)

----------------------------------------------------------------------------
\* C20: io.Writer conformance, variant B.  Write(data), which returns what
\* WriteRecord(data) returns, gives a count n with 0 <= n <= len(data), and
\* n = len(data) exactly when it gives a nil error.
C20_WriterConformance ==
    (variant = "B" /\ phase = "write" /\ lastWrite.called) =>
        /\ lastWrite.size \in 0..Len(lastWrite.data)
        /\ lastWrite.size = Len(lastWrite.data) <=> lastWrite.err = Nil

\* Write of two bytes on a Writer without compression returned 18 and nil
C20_Witness ==
    /\ variant = "B" /\ phase = "write" /\ lastWrite.called
    /\ ~HasFlag(rw.Options, GzipCompress)
    /\ Len(lastWrite.data) = 2
    /\ lastWrite.err = Nil
    /\ lastWrite.size = recordHeaderSize + 2

====
